---- MODULE Spec2Model ----
(***************************************************************************)
(* Model of nanovllm/utils/loader.py: load_model hydrates a model's        *)
(* parameters from the *.safetensors shard files of a directory, renaming  *)
(* keys through packed_modules_mapping and dispatching to each parameter's *)
(* weight_loader (or to default_weight_loader).                            *)
(*                                                                         *)
(* Strings (tensor keys, parameter names, patterns) are sequences of       *)
(* one-character strings.  A tensor is [shape, dtype, data] with data the  *)
(* row-major flat sequence of its elements.  Element values are counted in *)
(* halves (3 is 1.5), so that a float -> int conversion loses something.   *)
(***************************************************************************)
EXTENDS Integers, Sequences, FiniteSets, TLC

\* ------------------------------------------------------------------ bounds
MaxKeyLen == 2
MaxPatLen == 2
MaxRules == 2
MaxFiles == 2
MaxKeysPerFile == 2
MaxDim == 2

\* print(...)[:20] in the error report
SampleSize == 20

Alphabet == {"a", "b"}
RepAlphabet == {"c"}
NoShard == -1
ShardIds == {0, 1}
Ranks == {1, 2}

\* ----------------------------------------------------------------- strings
StrUpTo(S, n) == UNION {[1..m -> S] : m \in 0..n}

StartsWith(s, k) == Len(k) <= Len(s) /\ SubSeq(s, 1, Len(k)) = k

\* Python: k in weight_name
Contains(k, s) ==
  \E i \in 1..(Len(s) - Len(k) + 1) : SubSeq(s, i, i + Len(k) - 1) = k

\* a plausible slip: str.replace(k, v, 1)
RECURSIVE ReplaceFirst(_, _, _)
ReplaceFirst(s, k, v) ==
  IF Len(s) < Len(k) THEN s
  ELSE IF StartsWith(s, k) THEN v \o SubSeq(s, Len(k) + 1, Len(s))
  ELSE <<Head(s)>> \o ReplaceFirst(Tail(s), k, v)

\* Python: weight_name.replace(k, v), k non-empty: every non-overlapping
\* occurrence, scanning left to right, the replacement never rescanned
RECURSIVE Replace(_, _, _)
Replace(s, k, v) ==
  IF Len(s) < Len(k) THEN s
  ELSE IF StartsWith(s, k) THEN v \o Replace(SubSeq(s, Len(k) + 1, Len(s)), k, v)
  ELSE <<Head(s)>> \o Replace(Tail(s), k, v)

\* code points order the characters; Python compares strings lexicographically
CharOrd(c) == CASE c = "a" -> 1 [] c = "b" -> 2 [] c = "c" -> 3 [] c = "d" -> 4

RECURSIVE StrLess(_, _)
StrLess(s, t) ==
  IF t = <<>> THEN FALSE
  ELSE IF s = <<>> THEN TRUE
  ELSE IF Head(s) = Head(t) THEN StrLess(Tail(s), Tail(t))
  ELSE CharOrd(Head(s)) < CharOrd(Head(t))

\* how many entries of l a stable sort puts before the j-th one
Rank(l, j) ==
  Cardinality({k \in DOMAIN l : \/ StrLess(l[k], l[j])
                                \/ l[k] = l[j] /\ k < j})

\* Python: sorted(names), a new list, equal names in the order they had
sorted(l) == [i \in DOMAIN l |-> l[CHOOSE j \in DOMAIN l : Rank(l, j) = i - 1]]

\* Python: l[:n]
Take(l, n) == SubSeq(l, 1, IF Len(l) < n THEN Len(l) ELSE n)

\* a set of names as a list, in some order (dict order is insertion order)
SetToSeq(S) ==
  [i \in 1..Cardinality(S) |->
     CHOOSE x \in S : Cardinality({y \in S : StrLess(x, y)}) = i - 1]

\* ----------------------------------------------------------------- tensors
RECURSIVE Numel(_)
Numel(shape) == IF shape = <<>> THEN 1 ELSE Head(shape) * Numel(Tail(shape))

\* torch: can a tensor of shape src be broadcast to shape dst (dst fixed)
Broadcastable(src, dst) ==
  /\ Len(src) <= Len(dst)
  /\ \A i \in 1..Len(src) :
       LET d == dst[Len(dst) - Len(src) + i] IN src[i] = d \/ src[i] = 1

\* the multi-index of flat position p (1-based) in a tensor of this shape
RECURSIVE Unflatten(_, _)
Unflatten(p, shape) ==
  IF shape = <<>> THEN <<>>
  ELSE LET n == Numel(Tail(shape)) IN
       <<((p - 1) \div n) + 1>> \o Unflatten(((p - 1) % n) + 1, Tail(shape))

RECURSIVE Flatten(_, _)
Flatten(idx, shape) ==
  IF shape = <<>> THEN 1
  ELSE (Head(idx) - 1) * Numel(Tail(shape)) + Flatten(Tail(idx), Tail(shape))

\* element of the source that lands on flat position p of the destination
BroadcastAt(w, dst, p) ==
  LET di == Unflatten(p, dst)
      off == Len(dst) - Len(w.shape)
      si == [i \in 1..Len(w.shape) |-> IF w.shape[i] = 1 THEN 1 ELSE di[off + i]]
  IN w.data[Flatten(si, w.shape)]

\* C conversion float -> int truncates toward zero (values are in halves)
Trunc(v) == IF v >= 0 THEN 2 * (v \div 2) ELSE -(2 * ((-v) \div 2))

Cast(v, from, to) == IF to = "int" /\ from = "float" THEN Trunc(v) ELSE v

\* a plausible slip: the shape check of vLLM's default_weight_loader kept
CopyChecked(param, loaded_weight) ==
  IF param.shape = loaded_weight.shape /\ param.dtype = loaded_weight.dtype
  THEN [ok |-> TRUE, data |-> loaded_weight.data]
  ELSE [ok |-> FALSE, data |-> param.data]

\* param.data.copy_(loaded_weight): broadcasts and converts the dtype; a
\* shape that cannot be broadcast raises RuntimeError and writes nothing
default_weight_loader(param, loaded_weight) ==
  IF Broadcastable(loaded_weight.shape, param.shape)
  THEN [ok |-> TRUE,
        data |-> [p \in 1..Numel(param.shape) |->
                    Cast(BroadcastAt(loaded_weight, param.shape, p),
                         loaded_weight.dtype, param.dtype)]]
  ELSE [ok |-> FALSE, data |-> param.data]

\* --------------------------------------------------------------- resolution
\* a plausible slip: the loop over the table without its break (last match)
RECURSIVE LastMatch(_, _, _)
LastMatch(mapping, weight_name, i) ==
  IF i > Len(mapping) THEN 0
  ELSE LET later == LastMatch(mapping, weight_name, i + 1) IN
       IF later # 0 THEN later
       ELSE IF Contains(mapping[i].k, weight_name) THEN i ELSE 0

\* for k in packed_modules_mapping: if k in weight_name: ... break
\* the index of the rule the loop stops at, from rule i on; 0: the for's else
RECURSIVE FirstMatch(_, _, _)
FirstMatch(mapping, weight_name, i) ==
  IF i > Len(mapping) THEN 0
  ELSE IF Contains(mapping[i].k, weight_name) THEN i
  ELSE FirstMatch(mapping, weight_name, i + 1)

\* a plausible slip: the renamed lookup falling back to the key's own name
PlanWithFallback(mapping, names, weight_name) ==
  LET m == FirstMatch(mapping, weight_name, 1)
      renamed == IF m = 0 THEN weight_name
                 ELSE Replace(weight_name, mapping[m].k, mapping[m].v)
  IN IF m # 0 /\ renamed \in names
     THEN [rule |-> m, param_name |-> renamed,
           shard_id |-> mapping[m].shard_id, found |-> TRUE]
     ELSE [rule |-> 0, param_name |-> weight_name, shard_id |-> NoShard,
           found |-> weight_name \in names]

\* a plausible slip: the shard identifier taken from the head of the table
PlanFirstShard(mapping, names, weight_name) ==
  LET m == FirstMatch(mapping, weight_name, 1)
      param_name == IF m = 0 THEN weight_name
                    ELSE Replace(weight_name, mapping[m].k, mapping[m].v)
  IN [rule |-> m, param_name |-> param_name,
      shard_id |-> IF m = 0 THEN NoShard ELSE mapping[1].shard_id,
      found |-> param_name \in names]

\* lines 33-37 and 42: the parameter name looked up for a key, the shard
\* identifier passed on (NoShard in the for's else branch), and whether
\* model.get_parameter finds the name
Plan(mapping, names, weight_name) ==
  LET m == FirstMatch(mapping, weight_name, 1)
      param_name == IF m = 0 THEN weight_name
                    ELSE Replace(weight_name, mapping[m].k, mapping[m].v)
  IN [rule |-> m, param_name |-> param_name,
      shard_id |-> IF m = 0 THEN NoShard ELSE mapping[m].shard_id,
      found |-> param_name \in names]

\* ------------------------------------------------------------ custom loader
\* A parameter's weight_loader attribute is model code.  With a shard
\* identifier it writes the tensor into region shard_id of the parameter's
\* storage; without one it copies the whole tensor.  It may also reject the
\* call, raising from inside the loader.
LoaderErrors == {"AttributeError", "AssertionError"}

Region(param, loaded_weight, shard_id) ==
  LET n == Len(loaded_weight.data)
      off == IF shard_id = NoShard THEN 0 ELSE shard_id * n
  IN [p \in 1..Len(param.data) |->
        IF p > off /\ p <= off + n
        THEN Cast(loaded_weight.data[p - off], loaded_weight.dtype, param.dtype)
        ELSE param.data[p]]

Fits(param, loaded_weight, shard_id) ==
  IF shard_id = NoShard
  THEN Len(loaded_weight.data) = Len(param.data)
  ELSE (shard_id + 1) * Len(loaded_weight.data) <= Len(param.data)

weight_loader(param, loaded_weight, shard_id) ==
  {[ok |-> FALSE, data |-> param.data, error |-> e] : e \in LoaderErrors}
  \cup (IF Fits(param, loaded_weight, shard_id)
        THEN {[ok |-> TRUE, data |-> Region(param, loaded_weight, shard_id),
               error |-> "none"]}
        ELSE {})

\* -------------------------------------------------------------------- state
VARIABLES
  packed_modules_mapping, \* the model's table: a list of [k, v, shard_id]
  safetensor_files,       \* glob's list of shard files: [path, entries]
  model,                  \* parameter name -> [shape, dtype, data, weight_loader]
  model_before,           \* the parameters as they were when load_model was entered
  all_weight_names,       \* the list of keys gathered for the report
  model_params,           \* keys of dict(model.named_parameters()), in order
  pc,                     \* where load_model is
  fi,                     \* index of the current file in safetensor_files
  ki,                     \* index of the current key in that file
  opened,                 \* paths of the shard files now open
  raised,                 \* the exception that left load_model, or "none"
  caught,                 \* the AttributeError caught at line 45, or "none"
  printed,                \* the report printed by lines 47-63: <<>> or <<r>>
  log                     \* what was done so far, in order

\* the process that serves the models: app.py, main
VARIABLES
  environ,                \* os.environ: variable -> <<>> if unset, <<value>> if set
  gpu_memory_gb,          \* what get_gpu_memory_gb() returns
  main_pc,                \* where main is
  debug_ui,               \* main's locals, "unbound" before their assignment
  auto_offload,
  config_path,
  config_path_2,
  dit_handler_2,
  enable_generate,
  init_status,
  available_dit_models,
  init_params,            \* what create_gradio_interface is handed
  calls                   \* the calls main has made to the handlers, in order

load == <<packed_modules_mapping, safetensor_files, model, model_before,
          all_weight_names, model_params, pc, fi, ki, opened, raised, caught, printed, log>>

process == <<environ, gpu_memory_gb, main_pc, debug_ui, auto_offload,
             config_path, config_path_2, dit_handler_2, enable_generate,
             init_status, available_dit_models, init_params, calls>>

vars == <<load, process>>

inputs == <<packed_modules_mapping, safetensor_files, model_before>>

\* one entry of the log: what was done, for which key of which shard file, on
\* which parameter name, with which shard identifier
Event(op, key, name, file, shard) ==
  [op |-> op, key |-> key, name |-> name, file |-> file, shard |-> shard]

\* the engine state of the specification's state machine
Phase ==
  CASE pc \in {"glob", "scan_open", "scan_keys", "named_parameters"} -> "Scanning"
    [] pc \in {"load_open", "load_key", "report", "reraise"} -> "Loading"
    [] pc = "complete" -> "Complete"
    [] pc = "failed" -> "Failed"

\* ------------------------------------------------------------------- inputs
Keys == StrUpTo(Alphabet, MaxKeyLen) \ {<<>>}
Patterns == StrUpTo(Alphabet, MaxPatLen) \ {<<>>}
Reps == {<<c>> : c \in RepAlphabet}
NamePool == StrUpTo(Alphabet \cup RepAlphabet, MaxKeyLen) \ {<<>>}
Rules == [k : Patterns, v : Reps, shard_id : ShardIds]

\* a dict has each pattern once; its order is the order of insertion
TablesOf(rules, n) ==
  {t \in UNION {[1..m -> rules] : m \in 0..n} :
     \A i, j \in 1..Len(t) : i # j => t[i].k # t[j].k}

Dtypes == {"float", "int"}
Loaders == {"absent", "custom"}
Shapes == UNION {[1..n -> 1..MaxDim] : n \in Ranks}

\* a tensor whose elements are the halves 1.5 + off, 2.5 + off, ...; negated
\* when sign is -1; whole numbers when the dtype is int
TensorOf(shape, dtype, off, sign) ==
  [shape |-> shape, dtype |-> dtype,
   data |-> [p \in 1..Numel(shape) |->
               Cast(sign * (2 * (p + off) + 1), "float", dtype)]]

Tensors ==
  {TensorOf(sh, dt, 0, sg) : sh \in Shapes, dt \in Dtypes, sg \in {1, -1}}

\* a parameter as the model constructs it: zero-filled
ParamOf(shape, dtype, loader) ==
  [shape |-> shape, dtype |-> dtype,
   data |-> [p \in 1..Numel(shape) |-> 0], weight_loader |-> loader]

NoParams == [n \in {} |-> ParamOf(<<1>>, "float", "absent")]

File(path, entries) == [path |-> path, entries |-> entries]
Entry(key, tensor) == [key |-> key, tensor |-> tensor]

OneKey(key) == <<File(1, <<Entry(key, TensorOf(<<2>>, "float", 0, 1))>>)>>

\* main has not run
NotRun ==
  /\ environ = [name \in {} |-> <<>>]
  /\ gpu_memory_gb = 0
  /\ main_pc = "idle"
  /\ debug_ui = "unbound"
  /\ auto_offload = "unbound"
  /\ config_path = "unbound"
  /\ config_path_2 = "unbound"
  /\ dit_handler_2 = "unbound"
  /\ enable_generate = "unbound"
  /\ init_status = "unbound"
  /\ available_dit_models = "unbound"
  /\ init_params = "unbound"
  /\ calls = <<>>

\* load_model(model, path) is entered: the model with its table and zeroed
\* parameters, the directory with its shard files, nothing done yet
Entered(table, files, parameters) ==
  /\ packed_modules_mapping = table
  /\ safetensor_files = files
  /\ model = parameters
  /\ model_before = parameters
  /\ all_weight_names = <<>>
  /\ model_params = <<>>
  /\ pc = "glob"
  /\ fi = 0
  /\ ki = 0
  /\ opened = {}
  /\ raised = "none"
  /\ caught = "none"
  /\ printed = <<>>
  /\ log = <<>>
  /\ NotRun

\* one shard with one key, one rule of any pattern, at most one parameter
RenameInit ==
  \E t \in TablesOf(Rules, 1), key \in Keys :
    \E m \in {NoParams} \cup
             {n :> ParamOf(<<2>>, "float", l) : n \in NamePool, l \in Loaders} :
      Entered(t, OneKey(key), m)

\* one shard with one key, a table of several overlapping rules
OrderRules == [k : {<<"a">>, <<"b">>, <<"a", "b">>}, v : Reps, shard_id : ShardIds]
OrderInit ==
  \E t \in TablesOf(OrderRules, MaxRules), key \in Keys :
    \E m \in {NoParams} \cup
             {n :> ParamOf(<<2>>, "float", "custom") : n \in NamePool} :
      Entered(t, OneKey(key), m)

\* one shard with one key, every pairing of tensor and parameter, loaded
\* under the key's own name or through a rule
CopyInit ==
  \E w \in Tensors, sh \in Shapes, dt \in Dtypes, l \in Loaders :
    \/ Entered(<<>>, <<File(1, <<Entry(<<"a">>, w)>>)>>,
               <<"a">> :> ParamOf(sh, dt, l))
    \/ \E sid \in ShardIds :
         Entered(<<[k |-> <<"a">>, v |-> <<"c">>, shard_id |-> sid]>>,
                 <<File(1, <<Entry(<<"a">>, w)>>)>>,
                 <<"c">> :> ParamOf(sh, dt, l))

\* several shards of several keys over a fixed model and a few tables
EngineKeys == {<<"a">>, <<"b">>}
EngineEntries ==
  {e \in UNION {[1..n -> EngineKeys] : n \in 0..MaxKeysPerFile} :
     \A i, j \in 1..Len(e) : i # j => e[i] # e[j]}
EngineTables ==
  {<<>>,
   <<[k |-> <<"a">>, v |-> <<"c">>, shard_id |-> 0]>>,
   <<[k |-> <<"a">>, v |-> <<"c">>, shard_id |-> 0],
     [k |-> <<"b">>, v |-> <<"c">>, shard_id |-> 1]>>,
   <<[k |-> <<"a">>, v |-> <<"c">>, shard_id |-> 0],
     [k |-> <<"b">>, v |-> <<"c">>, shard_id |-> 0]>>}
EngineModel ==
  (<<"a">> :> ParamOf(<<2>>, "float", "absent"))
  @@ (<<"b">> :> ParamOf(<<2>>, "float", "absent"))
  @@ (<<"c">> :> ParamOf(<<4>>, "float", "custom"))
EngineInit ==
  \E t \in EngineTables,
     fs \in UNION {[1..n -> EngineEntries] : n \in 0..MaxFiles},
     names \in SUBSET DOMAIN EngineModel :
    Entered(t,
            [i \in 1..Len(fs) |->
               File(i, [j \in 1..Len(fs[i]) |->
                          Entry(fs[i][j], TensorOf(<<2>>, "float", 2 * i, 1))])],
            [n \in names |-> EngineModel[n]])

\* checkpoints and models with about SampleSize names: the i-th name is i
\* written with five binary digits a and b, so names sort as their numbers
\* do; a shard holds its keys out of sorted order, the second shard carries
\* keys of the first again, and every parameter name starts with c, so that
\* the first key is not a parameter
NameNo(i) == [q \in 1..5 |-> IF (i \div 2 ^ (5 - q)) % 2 = 0 THEN "a" ELSE "b"]
ReportKey(j) == NameNo((7 * j) % 23)
ReportSizes == {SampleSize - 1, SampleSize, SampleSize + 1}
ReportFile(i, n) ==
  File(i, [j \in 1..n |-> Entry(ReportKey(j), TensorOf(<<2>>, "float", 1, 1))])
ReportInit ==
  \E n \in ReportSizes, again \in {0, 2}, m \in {0} \cup ReportSizes :
    Entered(<<>>,
            IF again = 0 THEN <<ReportFile(1, n)>>
            ELSE <<ReportFile(1, n), ReportFile(2, again)>>,
            [name \in {<<"c">> \o NameNo(j) : j \in 1..m} |->
               ParamOf(<<2>>, "float", "absent")])

\* fusion over three shard identifiers.  Composed: keys a, b and d, each
\* renamed by its own rule onto the fused parameter c, three times their
\* length; Identity: the same keys loaded under their own names; Split: one
\* key ab, three times the length of the parameters, that three rules match
\* and rename to three parameters.  Keys and rules come in every order, the
\* keys in one shard or in one shard each.
Orders == {o \in [1..3 -> 1..3] : \A i, j \in 1..3 : i # j => o[i] # o[j]}
Reordered(l, o) == [i \in 1..3 |-> l[o[i]]]
Rule(k, v, shard_id) == [k |-> k, v |-> v, shard_id |-> shard_id]
ComposedRules ==
  <<Rule(<<"a">>, <<"c">>, 0), Rule(<<"b">>, <<"c">>, 1), Rule(<<"d">>, <<"c">>, 2)>>
SplitRules ==
  <<Rule(<<"a">>, <<"c">>, 0), Rule(<<"b">>, <<"c">>, 1),
    Rule(<<"a", "b">>, <<"c">>, 2)>>
PartEntries ==
  <<Entry(<<"a">>, TensorOf(<<2>>, "float", 0, 1)),
    Entry(<<"b">>, TensorOf(<<2>>, "float", 2, 1)),
    Entry(<<"d">>, TensorOf(<<2>>, "float", 4, 1))>>
Sharded(entries, each) ==
  IF each THEN [i \in 1..Len(entries) |-> File(i, <<entries[i]>>)]
  ELSE <<File(1, entries)>>
FusionInit ==
  \E o \in Orders :
    \/ \E each \in BOOLEAN :
         \/ Entered(ComposedRules, Sharded(Reordered(PartEntries, o), each),
                    <<"c">> :> ParamOf(<<6>>, "float", "custom"))
         \/ Entered(<<>>, Sharded(Reordered(PartEntries, o), each),
                    [name \in {<<"a">>, <<"b">>, <<"d">>} |->
                       ParamOf(<<2>>, "float", "absent")])
    \/ Entered(Reordered(SplitRules, o),
               <<File(1, <<Entry(<<"a", "b">>, TensorOf(<<6>>, "float", 0, 1))>>)>>,
               [name \in {<<"c", "b">>, <<"a", "c">>, <<"c">>} |->
                  ParamOf(<<2>>, "float", "custom")])

Init ==
  RenameInit \/ OrderInit \/ CopyInit \/ EngineInit \/ ReportInit \/ FusionInit

\* ------------------------------------------------------------------ actions
CurFile == safetensor_files[fi]
CurEntry == CurFile.entries[ki]
weight_name == CurEntry.key
CurPlan == Plan(packed_modules_mapping, DOMAIN model, weight_name)
CurParam == model[CurPlan.param_name]

\* a plausible slip: the shard opened without with, left open on an exception
PropagateOpen(error) ==
  /\ raised' = error
  /\ opened' = opened
  /\ pc' = "failed"

\* leaving the with block on an exception closes the shard; nothing else runs
Propagate(error) ==
  /\ raised' = error
  /\ opened' = {}
  /\ pc' = "failed"

\* a plausible slip: no check of the glob's result, so that both loops run
\* over nothing and load_model returns
GlobUnchecked ==
  /\ pc = "glob"
  /\ IF safetensor_files = <<>>
     THEN pc' = "complete" /\ fi' = fi
     ELSE pc' = "scan_open" /\ fi' = 1
  /\ UNCHANGED <<inputs, process, model, all_weight_names, model_params, ki, opened,
                 raised, caught, printed, log>>

\* lines 17-20
Glob ==
  /\ pc = "glob"
  /\ IF safetensor_files = <<>>
     THEN /\ raised' = "FileNotFoundError"
          /\ pc' = "failed"
          /\ fi' = fi
     ELSE /\ raised' = raised
          /\ pc' = "scan_open"
          /\ fi' = 1
  /\ UNCHANGED <<inputs, process, model,
                 all_weight_names, model_params, ki, opened, caught, printed,
                 log>>

\* line 23
ScanOpen ==
  /\ pc = "scan_open"
  /\ opened' = opened \cup {CurFile.path}
  /\ pc' = "scan_keys"
  /\ UNCHANGED <<inputs, process, model,
                 all_weight_names, model_params, fi, ki, raised, caught,
                 printed, log>>

\* a plausible slip: the inventory taken from the first shard only
ScanKeysFirstShard ==
  /\ pc = "scan_keys"
  /\ all_weight_names' =
       all_weight_names \o [j \in 1..Len(CurFile.entries) |-> CurFile.entries[j].key]
  /\ log' = Append(log, Event("keys", <<>>, <<>>, CurFile.path, NoShard))
  /\ opened' = opened \ {CurFile.path}
  /\ pc' = "named_parameters"
  /\ UNCHANGED <<inputs, process, model, model_params, fi, ki, raised, caught, printed>>

\* line 24, the end of the with block, and the for's next turn (line 22)
ScanKeys ==
  /\ pc = "scan_keys"
  /\ all_weight_names' =
       all_weight_names \o [j \in 1..Len(CurFile.entries) |-> CurFile.entries[j].key]
  /\ log' = Append(log, Event("keys", <<>>, <<>>, CurFile.path, NoShard))
  /\ opened' = opened \ {CurFile.path}
  /\ IF fi < Len(safetensor_files)
     THEN fi' = fi + 1 /\ pc' = "scan_open"
     ELSE fi' = fi /\ pc' = "named_parameters"
  /\ UNCHANGED <<inputs, process, model,
                 model_params, ki, raised, caught, printed>>

\* line 27
NamedParameters ==
  /\ pc = "named_parameters"
  /\ model_params' = SetToSeq(DOMAIN model)
  /\ fi' = 1
  /\ pc' = "load_open"
  /\ UNCHANGED <<inputs, process, model,
                 all_weight_names, ki, opened, raised, caught, printed, log>>

\* a plausible slip: the keys of a shard from the second on
LoadOpenOffByOne ==
  /\ pc = "load_open"
  /\ opened' = opened \cup {CurFile.path}
  /\ ki' = 2
  /\ pc' = "load_key"
  /\ UNCHANGED <<inputs, process, model, all_weight_names, model_params, fi, raised,
                 caught, printed, log>>

\* lines 29-30
LoadOpen ==
  /\ pc = "load_open"
  /\ opened' = opened \cup {CurFile.path}
  /\ ki' = 1
  /\ pc' = "load_key"
  /\ UNCHANGED <<inputs, process, model,
                 all_weight_names, model_params, fi, raised, caught, printed,
                 log>>

\* a plausible slip: a return inside the loop over shards
LoadCloseReturns ==
  /\ pc = "load_key"
  /\ ki > Len(CurFile.entries)
  /\ opened' = opened \ {CurFile.path}
  /\ pc' = "complete"
  /\ UNCHANGED <<inputs, process, model, all_weight_names, model_params, fi, ki,
                 raised, caught, printed, log>>

\* a plausible slip: a check, after the last shard, that every parameter of
\* the model has been written
LoadCloseChecked ==
  /\ pc = "load_key"
  /\ ki > Len(CurFile.entries)
  /\ opened' = opened \ {CurFile.path}
  /\ IF fi < Len(safetensor_files)
     THEN fi' = fi + 1 /\ pc' = "load_open" /\ raised' = raised
     ELSE /\ fi' = fi
          /\ IF \A name \in DOMAIN model :
                  \E i \in 1..Len(log) : log[i].op = "write" /\ log[i].name = name
             THEN pc' = "complete" /\ raised' = raised
             ELSE pc' = "failed" /\ raised' = "KeyError"
  /\ UNCHANGED <<inputs, process, model, all_weight_names, model_params, ki, caught,
                 printed, log>>

\* a plausible slip: the shard after the one just loaded passed over
LoadCloseSkipsShard ==
  /\ pc = "load_key"
  /\ ki > Len(CurFile.entries)
  /\ opened' = opened \ {CurFile.path}
  /\ IF fi + 1 < Len(safetensor_files)
     THEN fi' = fi + 2 /\ pc' = "load_open"
     ELSE fi' = fi /\ pc' = "complete"
  /\ UNCHANGED <<inputs, process, model, all_weight_names, model_params, ki, raised,
                 caught, printed, log>>

\* line 31 exhausted: the with block ends, the next shard or the return
LoadClose ==
  /\ pc = "load_key"
  /\ ki > Len(CurFile.entries)
  /\ opened' = opened \ {CurFile.path}
  /\ IF fi < Len(safetensor_files)
     THEN fi' = fi + 1 /\ pc' = "load_open"
     ELSE fi' = fi /\ pc' = "complete"
  /\ UNCHANGED <<inputs, process, model,
                 all_weight_names, model_params, ki, raised, caught, printed,
                 log>>

AtKey == pc = "load_key" /\ ki <= Len(CurFile.entries)

KeyEvent(op) ==
  Event(op, weight_name, CurPlan.param_name, CurFile.path, CurPlan.shard_id)
Lookup == KeyEvent("get_parameter")
Read == KeyEvent("get_tensor")
Call(loader) == KeyEvent(loader)
Write == KeyEvent("write")

\* a plausible slip: line 38 written like line 43, with the default
GetattrDefaulted(param, rule) ==
  IF param.weight_loader = "custom" THEN "weight_loader"
  ELSE "default_weight_loader"

\* a plausible slip: the for's else branch always taking the default loader
GetattrIgnored(param, rule) ==
  IF rule = 0 THEN "default_weight_loader"
  ELSE IF param.weight_loader = "custom" THEN "weight_loader"
  ELSE "AttributeError"

\* line 38: getattr(param, "weight_loader") after a rule matched (rule # 0);
\* line 43: getattr(param, "weight_loader", default_weight_loader)
getattr(param, rule) ==
  IF param.weight_loader = "custom" THEN "weight_loader"
  ELSE IF rule = 0 THEN "default_weight_loader"
  ELSE "AttributeError"

\* a plausible slip: a key without a parameter passed over, the loop going on
LookupSkips ==
  /\ AtKey
  /\ ~CurPlan.found
  /\ log' = Append(log, Lookup)
  /\ ki' = ki + 1
  /\ UNCHANGED <<inputs, process, model, all_weight_names, model_params, fi, opened,
                 raised, caught, printed, pc>>

\* line 37 or 42: get_parameter raises AttributeError
LookupFails ==
  /\ AtKey
  /\ ~CurPlan.found
  /\ log' = Append(log, Lookup)
  /\ caught' = "AttributeError"
  /\ pc' = "report"
  /\ UNCHANGED <<inputs, process, model,
                 all_weight_names, model_params, fi, ki, opened, raised,
                 printed>>

\* line 38: getattr without a default raises AttributeError
LoaderMissing ==
  /\ AtKey
  /\ CurPlan.found
  /\ getattr(CurParam, CurPlan.rule) = "AttributeError"
  /\ log' = Append(log, Lookup)
  /\ caught' = "AttributeError"
  /\ pc' = "report"
  /\ UNCHANGED <<inputs, process, model,
                 all_weight_names, model_params, fi, ki, opened, raised,
                 printed>>

\* a plausible slip: the tensor copied into a copy of the parameter's storage
DefaultLoadDetached ==
  /\ AtKey
  /\ CurPlan.found
  /\ getattr(CurParam, CurPlan.rule) = "default_weight_loader"
  /\ LET r == default_weight_loader(CurParam, CurEntry.tensor)
         done == log \o <<Lookup, Read, Call("default_weight_loader")>>
     IN IF r.ok
        THEN /\ log' = Append(done, Write)
             /\ ki' = ki + 1
             /\ UNCHANGED <<model, pc, opened, raised>>
        ELSE /\ log' = done
             /\ Propagate("RuntimeError")
             /\ UNCHANGED <<model, ki>>
  /\ UNCHANGED <<inputs, process, all_weight_names, model_params, fi, caught, printed>>

\* lines 42-44 with getattr's default: default_weight_loader
DefaultLoad ==
  /\ AtKey
  /\ CurPlan.found
  /\ getattr(CurParam, CurPlan.rule) = "default_weight_loader"
  /\ LET r == default_weight_loader(CurParam, CurEntry.tensor)
         done == log \o <<Lookup, Read, Call("default_weight_loader")>>
     IN IF r.ok
        THEN /\ model' = [model EXCEPT ![CurPlan.param_name].data = r.data]
             /\ log' = Append(done, Write)
             /\ ki' = ki + 1
             /\ UNCHANGED <<pc, opened, raised>>
        ELSE /\ log' = done
             /\ Propagate("RuntimeError")
             /\ UNCHANGED <<model, ki>>
  /\ UNCHANGED <<inputs, process, all_weight_names,
                 model_params, fi, caught, printed>>

\* lines 38-39, or 43-44 when the parameter has a weight_loader attribute
CustomLoad ==
  /\ AtKey
  /\ CurPlan.found
  /\ getattr(CurParam, CurPlan.rule) = "weight_loader"
  /\ \E r \in weight_loader(CurParam, CurEntry.tensor, CurPlan.shard_id) :
       LET done == log \o <<Lookup, Read, Call("weight_loader")>> IN
       IF r.ok
       THEN /\ model' = [model EXCEPT ![CurPlan.param_name].data = r.data]
            /\ log' = Append(done, Write)
            /\ ki' = ki + 1
            /\ UNCHANGED <<pc, opened, raised, caught>>
       ELSE /\ log' = done
            /\ UNCHANGED <<model, ki>>
            /\ IF r.error = "AttributeError"
               THEN /\ caught' = r.error
                    /\ pc' = "report"
                    /\ UNCHANGED <<opened, raised>>
               ELSE /\ Propagate(r.error)
                    /\ UNCHANGED caught
  /\ UNCHANGED <<inputs, process, all_weight_names,
                 model_params, fi, printed>>

\* a plausible slip: the names as they come, not sorted
SampleUnsorted(names) ==
  [first |-> Take(names, SampleSize),
   more |-> IF Len(names) > SampleSize THEN <<Len(names) - SampleSize>> ELSE <<>>]

\* lines 54-57 and 59-62: the first names in sorted order, and how many more
Sample(names) ==
  [first |-> Take(sorted(names), SampleSize),
   more |-> IF Len(names) > SampleSize THEN <<Len(names) - SampleSize>> ELSE <<>>]

\* a plausible slip: the file variable of the scanning loop, left at its end
LastScannedFile == safetensor_files[Len(safetensor_files)].path

\* line 52: the file variable of the loading loop
OffendingFile == CurFile.path

\* a plausible slip: the error re-raised with nothing printed
ReportSkipped ==
  /\ pc = "report"
  /\ pc' = "reraise"
  /\ UNCHANGED <<inputs, process, model, all_weight_names, model_params, fi, ki,
                 opened, raised, caught, printed, log>>

\* a plausible slip: the inventory sorted in place, all_weight_names.sort()
ReportSortsInPlace ==
  /\ pc = "report"
  /\ all_weight_names' = sorted(all_weight_names)
  /\ printed' = <<[key |-> weight_name, error |-> caught, file |-> OffendingFile,
                   weights |-> Sample(all_weight_names),
                   params |-> Sample(model_params)]>>
  /\ pc' = "reraise"
  /\ UNCHANGED <<inputs, process, model, model_params, fi, ki, opened, raised, caught,
                 log>>

\* lines 47-63
Report ==
  /\ pc = "report"
  /\ printed' = <<[key |-> weight_name, error |-> caught, file |-> OffendingFile,
                   weights |-> Sample(all_weight_names),
                   params |-> Sample(model_params)]>>
  /\ pc' = "reraise"
  /\ UNCHANGED <<inputs, process, model,
                 all_weight_names, model_params, fi, ki, opened, raised,
                 caught, log>>

\* a plausible slip: the error swallowed after the report, the loop going on
ReraiseSwallowed ==
  /\ pc = "reraise"
  /\ pc' = "load_key"
  /\ ki' = ki + 1
  /\ caught' = "none"
  /\ UNCHANGED <<inputs, process, model, all_weight_names, model_params, fi, opened,
                 raised, printed, log>>

\* a plausible slip: the parameters put back as they were before re-raising
ReraiseRolledBack ==
  /\ pc = "reraise"
  /\ Propagate(caught)
  /\ model' = model_before
  /\ UNCHANGED <<inputs, process, all_weight_names, model_params, fi, ki, caught,
                 printed, log>>

\* line 64
Reraise ==
  /\ pc = "reraise"
  /\ Propagate(caught)
  /\ UNCHANGED <<inputs, process, model,
                 all_weight_names, model_params, fi, ki, caught, printed, log>>

Next ==
  \/ Glob
  \/ ScanOpen
  \/ ScanKeys
  \/ NamedParameters
  \/ LoadOpen
  \/ LoadClose
  \/ LookupFails
  \/ LoaderMissing
  \/ DefaultLoad
  \/ CustomLoad
  \/ Report
  \/ Reraise

Spec == Init /\ [][Next]_vars

\* ---------------------------------------------------------------- app.py
\* A string is a list of characters; a model name is one character here: t
\* for acestep-v15-turbo, s for acestep-v15-turbo-shift3, m and p for others.
\* Python: s.lower(), for the letters the values of DEBUG_UI are spelt with
LowerChar(c) ==
  CASE c = "T" -> "t" [] c = "R" -> "r" [] c = "U" -> "u" [] c = "E" -> "e"
    [] c = "Y" -> "y" [] c = "S" -> "s" [] c = "N" -> "n" [] c = "O" -> "o"
    [] c = "F" -> "f" [] c = "A" -> "a" [] c = "L" -> "l"
    [] OTHER -> c
lower(s) == [i \in DOMAIN s |-> LowerChar(s[i])]

\* Python: s.strip()
RECURSIVE lstrip(_)
lstrip(s) == IF s # <<>> /\ Head(s) = " " THEN lstrip(Tail(s)) ELSE s
RECURSIVE rstrip(_)
rstrip(s) ==
  IF s # <<>> /\ s[Len(s)] = " " THEN rstrip(SubSeq(s, 1, Len(s) - 1)) ELSE s
strip(s) == lstrip(rstrip(s))

\* os.environ.get(name, default)
get(name, default) == IF environ[name] = <<>> THEN default ELSE environ[name][1]

\* a plausible slip: the value compared as it is spelt
DebugUiAsSpelt ==
  get("DEBUG_UI", <<>>) \in {<<"1">>, <<"t", "r", "u", "e">>, <<"y", "e", "s">>}

\* line 101
DebugUi ==
  lower(get("DEBUG_UI", <<>>)) \in {<<"1">>, <<"t", "r", "u", "e">>, <<"y", "e", "s">>}

\* the values the environment may hold
DebugUiValues ==
  {<<>>,
   <<"1">>,
   <<"0">>,
   <<"2">>,
   <<"t", "r", "u", "e">>,
   <<"T", "r", "u", "e">>,
   <<"T", "R", "U", "E">>,
   <<"t", "R", "u", "E">>,
   <<"y", "e", "s">>,
   <<"Y", "e", "s">>,
   <<"Y", "E", "S">>,
   <<"n", "o">>,
   <<"f", "a", "l", "s", "e">>,
   <<"o", "n">>,
   <<" ", "1">>,
   <<"t", "r", "u", "e", " ">>}
ModelValues == {<<>>, <<" ">>, <<"m">>, <<" ", "m", " ">>}
Unset == <<>>
Set(value) == <<value>>
Environments ==
  {[DEBUG_UI |-> d, SERVICE_MODE_DIT_MODEL |-> m, SERVICE_MODE_DIT_MODEL_2 |-> n] :
     d \in {Unset} \cup {Set(v) : v \in DebugUiValues},
     m \in {Unset, Set(<<"p">>)},
     n \in {Unset} \cup {Set(v) : v \in ModelValues}}
\* gigabytes of GPU memory: no GPU, less than the 16 of line 113, more
GpuMemories == {0, 8, 24}

\* main is entered; no load_model call is followed here
MainInit ==
  /\ environ \in Environments
  /\ gpu_memory_gb \in GpuMemories
  /\ main_pc = "debug_ui"
  /\ debug_ui = "unbound"
  /\ auto_offload = "unbound"
  /\ config_path = "unbound"
  /\ config_path_2 = "unbound"
  /\ dit_handler_2 = "unbound"
  /\ enable_generate = "unbound"
  /\ init_status = "unbound"
  /\ available_dit_models = "unbound"
  /\ init_params = "unbound"
  /\ calls = <<>>
  /\ packed_modules_mapping = <<>>
  /\ safetensor_files = <<>>
  /\ model = NoParams
  /\ model_before = NoParams
  /\ all_weight_names = <<>>
  /\ model_params = <<>>
  /\ pc = "glob"
  /\ fi = 0
  /\ ki = 0
  /\ opened = {}
  /\ raised = "none"
  /\ caught = "none"
  /\ printed = <<>>
  /\ log = <<>>

\* one call of main: the method, the handler it is called on, the model
Called(op, handler, path) == [op |-> op, handler |-> handler, path |-> path]

\* what a handler's initialization may do: return (status, True), return
\* (status, False), or raise
Outcomes == {"ok", "issue", "raises"}

\* lines 101-106
ReadDebugUi ==
  /\ main_pc = "debug_ui"
  /\ debug_ui' = DebugUi
  /\ main_pc' = "handlers"
  /\ UNCHANGED <<load, environ, gpu_memory_gb, auto_offload, config_path,
                 config_path_2, dit_handler_2, enable_generate, init_status,
                 available_dit_models, init_params, calls>>

\* lines 109-129
CreateHandlers ==
  /\ main_pc = "handlers"
  /\ auto_offload' = (gpu_memory_gb > 0 /\ gpu_memory_gb < 16)
  /\ calls' = calls \o <<Called("AceStepHandler", "dit_handler", <<>>),
                          Called("LLMHandler", "llm_handler", <<>>),
                          Called("DatasetHandler", "dataset_handler", <<>>)>>
  /\ main_pc' = "configure"
  /\ UNCHANGED <<load, environ, gpu_memory_gb, debug_ui, config_path,
                 config_path_2, dit_handler_2, enable_generate, init_status,
                 available_dit_models, init_params>>

\* lines 132-162
Configure ==
  /\ main_pc = "configure"
  /\ config_path' = get("SERVICE_MODE_DIT_MODEL", <<"t">>)
  /\ config_path_2' = strip(get("SERVICE_MODE_DIT_MODEL_2", <<"s">>))
  /\ init_status' = <<>>
  /\ enable_generate' = FALSE
  /\ dit_handler_2' = "None"
  /\ main_pc' = "initialize"
  /\ UNCHANGED <<load, environ, gpu_memory_gb, debug_ui, auto_offload,
                 available_dit_models, init_params, calls>>

\* lines 164-168
SkipInitialization ==
  /\ main_pc = "initialize"
  /\ debug_ui
  /\ init_status' = <<"DEBUG_UI mode">>
  /\ enable_generate' = FALSE
  /\ main_pc' = "available"
  /\ UNCHANGED <<load, environ, gpu_memory_gb, debug_ui, auto_offload,
                 config_path, config_path_2, dit_handler_2,
                 available_dit_models, init_params, calls>>

\* lines 169-185
InitializeDiT ==
  /\ main_pc = "initialize"
  /\ ~debug_ui
  /\ calls' = Append(calls, Called("initialize_service", "dit_handler", config_path))
  /\ \E outcome \in Outcomes :
       IF outcome = "raises"
       THEN main_pc' = "raised" /\ UNCHANGED <<init_status, enable_generate>>
       ELSE /\ init_status' = <<"DiT 1: " \o outcome>>
            /\ enable_generate' = (outcome = "ok")
            /\ main_pc' = "second"
  /\ UNCHANGED <<load, environ, gpu_memory_gb, debug_ui, auto_offload,
                 config_path, config_path_2, dit_handler_2,
                 available_dit_models, init_params>>

\* lines 188-213
InitializeSecondDiT ==
  /\ main_pc = "second"
  /\ IF config_path_2 # <<>>
     THEN /\ dit_handler_2' = "AceStepHandler"
          /\ calls' = calls \o
               <<Called("AceStepHandler", "dit_handler_2", <<>>),
                 Called("initialize_service", "dit_handler_2", config_path_2)>>
          /\ \E outcome \in Outcomes :
               IF outcome = "raises"
               THEN main_pc' = "raised" /\ UNCHANGED init_status
               ELSE /\ init_status' = Append(init_status, "DiT 2: " \o outcome)
                    /\ main_pc' = "lm"
     ELSE /\ main_pc' = "lm"
          /\ UNCHANGED <<dit_handler_2, calls, init_status>>
  /\ UNCHANGED <<load, environ, gpu_memory_gb, debug_ui, auto_offload,
                 config_path, config_path_2, enable_generate,
                 available_dit_models, init_params>>

\* lines 215-232
InitializeLM ==
  /\ main_pc = "lm"
  /\ calls' = Append(calls, Called("initialize", "llm_handler", <<>>))
  /\ \E outcome \in Outcomes :
       IF outcome = "raises"
       THEN main_pc' = "raised" /\ UNCHANGED init_status
       ELSE /\ init_status' = Append(init_status, "LM: " \o outcome)
            /\ main_pc' = "available"
  /\ UNCHANGED <<load, environ, gpu_memory_gb, debug_ui, auto_offload,
                 config_path, config_path_2, dit_handler_2, enable_generate,
                 available_dit_models, init_params>>

\* lines 235-237
ListModels ==
  /\ main_pc = "available"
  /\ available_dit_models' =
       IF config_path_2 # <<>> /\ dit_handler_2 # "None"
       THEN <<config_path, config_path_2>>
       ELSE <<config_path>>
  /\ main_pc' = "interface"
  /\ UNCHANGED <<load, environ, gpu_memory_gb, debug_ui, auto_offload,
                 config_path, config_path_2, dit_handler_2, enable_generate,
                 init_status, init_params, calls>>

\* lines 240-287
Launch ==
  /\ main_pc = "interface"
  /\ init_params' =
       [config_path |-> config_path,
        config_path_2 |-> IF config_path_2 # <<>> THEN config_path_2 ELSE "None",
        offload_to_cpu |-> auto_offload,
        init_status |-> init_status,
        enable_generate |-> enable_generate,
        dit_handler_2 |-> dit_handler_2,
        available_dit_models |-> available_dit_models,
        debug_ui |-> debug_ui]
  /\ calls' = calls \o <<Called("create_gradio_interface", "dit_handler", <<>>),
                          Called("launch", "demo", <<>>)>>
  /\ main_pc' = "serving"
  /\ UNCHANGED <<load, environ, gpu_memory_gb, debug_ui, auto_offload,
                 config_path, config_path_2, dit_handler_2, enable_generate,
                 init_status, available_dit_models>>

MainNext ==
  \/ ReadDebugUi
  \/ CreateHandlers
  \/ Configure
  \/ SkipInitialization
  \/ InitializeDiT
  \/ InitializeSecondDiT
  \/ InitializeLM
  \/ ListModels
  \/ Launch

MainSpec == MainInit /\ [][MainNext]_vars

\* =================================================================== claims
Failing == {"report", "reraise", "failed"}
LoaderOps == {"default_weight_loader", "weight_loader"}

\* the rules whose pattern is a substring of the key, by position in the table
Matching(key) ==
  {i \in 1..Len(packed_modules_mapping) :
     Contains(packed_modules_mapping[i].k, key)}
Earliest(key) == CHOOSE i \in Matching(key) : \A j \in Matching(key) : i <= j
Latest(key) == CHOOSE i \in Matching(key) : \A j \in Matching(key) : j <= i
RenamedBy(key, i) ==
  Replace(key, packed_modules_mapping[i].k, packed_modules_mapping[i].v)
Renamed(key) == RenamedBy(key, Earliest(key))
FilesAt(path) ==
  {safetensor_files[n] : n \in {m \in 1..Len(safetensor_files) :
                                  safetensor_files[m].path = path}}
KeysOfFile(path) ==
  UNION {{f.entries[j].key : j \in 1..Len(f.entries)} : f \in FilesAt(path)}

\* C1: whatever is done for a key that matches one or more rules (the
\* parameter lookup, the tensor read, the loader call, the write) uses the
\* name and the shard identifier of the earliest matching rule of the table,
\* wherever the key stands in the scan; the lookup is made once (it is followed
\* by the tensor read or it is the last thing done), so that no later rule and
\* no identity lookup is tried.
C1_FirstRuleWins ==
  \A i \in 1..Len(log) :
    LET e == log[i] IN
    (e.op # "keys" /\ Matching(e.key) # {}) =>
      /\ e.name = Renamed(e.key)
      /\ e.shard = packed_modules_mapping[Earliest(e.key)].shard_id
      /\ (e.op = "get_parameter" /\ i < Len(log)) => log[i + 1].op = "get_tensor"

C1_Witness ==
  \E i \in 1..Len(log) :
    LET e == log[i] IN
    /\ e.op = "write"
    /\ Cardinality(Matching(e.key)) >= 2
    /\ RenamedBy(e.key, Latest(e.key)) # e.name
    /\ packed_modules_mapping[Latest(e.key)].shard_id # e.shard

\* C2: a key that matches a rule and whose renamed target is no parameter is
\* looked up under the renamed name only; that lookup is the last thing done
\* (no lookup of the key's own name, no read, no write) and the load is
\* failing, with AttributeError once it has failed.
C2_NoFallThrough ==
  \A i \in 1..Len(log) :
    LET e == log[i] IN
    (e.op = "get_parameter" /\ Matching(e.key) # {}
       /\ Renamed(e.key) \notin DOMAIN model) =>
      /\ e.name = Renamed(e.key)
      /\ i = Len(log)
      /\ pc \in Failing
      /\ (e.key \in DOMAIN model => model[e.key] = model_before[e.key])
      /\ (pc = "failed" => raised = "AttributeError")

C2_Witness ==
  /\ pc = "failed"
  /\ log # <<>>
  /\ LET e == log[Len(log)] IN
     /\ e.op = "get_parameter"
     /\ Matching(e.key) # {}
     /\ Renamed(e.key) \notin DOMAIN model
     /\ e.key \in DOMAIN model

\* C3: a key that matches no rule is looked up under its own name with no
\* shard identifier; when a parameter of that name exists its loader is
\* called with no shard identifier; when none exists the lookup is the last
\* thing done, the load is failing, and the report printed names that key and
\* the shard file that was being read, which contains it.
C3_IdentityLookup ==
  \A i \in 1..Len(log) :
    LET e == log[i] IN
    (e.op = "get_parameter" /\ Matching(e.key) = {}) =>
      /\ e.name = e.key
      /\ e.shard = NoShard
      /\ IF e.key \in DOMAIN model
         THEN /\ i + 2 <= Len(log)
              /\ log[i + 1].op = "get_tensor"
              /\ log[i + 2].op \in LoaderOps
              /\ log[i + 2].name = e.key
              /\ log[i + 2].shard = NoShard
         ELSE /\ i = Len(log)
              /\ pc \in Failing
              /\ (pc \in {"reraise", "failed"} =>
                    /\ Len(printed) = 1
                    /\ printed[1].key = e.key
                    /\ printed[1].file = e.file
                    /\ e.key \in KeysOfFile(printed[1].file)
                    /\ printed[1].error = "AttributeError")
              /\ (pc = "failed" => raised = "AttributeError")

C3_Witness ==
  /\ pc = "failed"
  /\ Len(printed) = 1
  /\ Matching(printed[1].key) = {}
  /\ printed[1].key \notin DOMAIN model
  /\ printed[1].file < Len(safetensor_files)

\* the start positions of the occurrences of k in s that a left-to-right scan
\* meets, each scan resuming after the occurrence found (k is not empty)
RECURSIVE OccurrencesFrom(_, _, _)
OccurrencesFrom(s, k, i) ==
  IF i + Len(k) - 1 > Len(s) THEN {}
  ELSE IF SubSeq(s, i, i + Len(k) - 1) = k
       THEN {i} \cup OccurrencesFrom(s, k, i + Len(k))
       ELSE OccurrencesFrom(s, k, i + 1)
Occurrences(s, k) == OccurrencesFrom(s, k, 1)

\* s with the occurrences of k that start at the positions occ replaced by v
\* and every other character kept, from position i on
RECURSIVE Substituted(_, _, _, _, _)
Substituted(s, k, v, occ, i) ==
  IF i > Len(s) THEN <<>>
  ELSE IF i \in occ THEN v \o Substituted(s, k, v, occ, i + Len(k))
  ELSE <<s[i]>> \o Substituted(s, k, v, occ, i + 1)

FirstOnly(occ) == {i \in occ : \A j \in occ : i <= j}

\* C4 as stated: the name looked up for a key that matches a rule is the key
\* with the first occurrence of the earliest matching pattern replaced and
\* everything else, later occurrences included, kept.
C4_FirstOccurrenceOnly ==
  \A i \in 1..Len(log) :
    LET e == log[i] IN
    (e.op = "get_parameter" /\ Matching(e.key) # {}) =>
      LET r == packed_modules_mapping[Earliest(e.key)] IN
      e.name = Substituted(e.key, r.k, r.v, FirstOnly(Occurrences(e.key, r.k)), 1)

\* C4 amended: the name looked up is the key with every occurrence of the
\* earliest matching pattern replaced (the occurrences a left-to-right scan
\* meets, none overlapping another) and every other character kept.
C4_EveryOccurrence ==
  \A i \in 1..Len(log) :
    LET e == log[i] IN
    (e.op = "get_parameter" /\ Matching(e.key) # {}) =>
      LET r == packed_modules_mapping[Earliest(e.key)] IN
      e.name = Substituted(e.key, r.k, r.v, Occurrences(e.key, r.k), 1)

C4_Witness ==
  \E i \in 1..Len(log) :
    LET e == log[i] IN
    /\ e.op = "get_parameter"
    /\ Matching(e.key) # {}
    /\ LET r == packed_modules_mapping[Earliest(e.key)] IN
       /\ Cardinality(Occurrences(e.key, r.k)) >= 2
       /\ ~Contains(r.k, e.name)

\* C5: with no shard file in the directory the load is at its first step or
\* has failed with FileNotFoundError: it is never in Loading or Complete,
\* nothing was looked up, read or written, the parameters are as they were,
\* no file was opened and no report was printed.
C5_NoShardsFailsFirst ==
  safetensor_files = <<>> =>
    /\ pc \in {"glob", "failed"}
    /\ Phase \notin {"Loading", "Complete"}
    /\ (pc = "failed" => raised = "FileNotFoundError")
    /\ log = <<>>
    /\ model = model_before
    /\ model_params = <<>>
    /\ opened = {}
    /\ printed = <<>>

C5_Witness ==
  /\ safetensor_files = <<>>
  /\ pc = "failed"
  /\ raised = "FileNotFoundError"
  /\ DOMAIN model # {}

StaysFailed ==
  pc \in Failing =>
    /\ pc' \in Failing
    /\ log' = log
    /\ model' = model
    /\ fi' = fi
    /\ ki' = ki

\* C6: once a key has failed (the report is being printed, the error is being
\* re-raised, or the load has failed) nothing more is resolved, read,
\* dispatched or written: the log, the parameters and the position in the
\* shards stay as they are, and the load stays failing.
C6_FirstFailureTerminal == [][StaysFailed]_vars

C6_Witness ==
  /\ pc = "failed"
  /\ raised # "FileNotFoundError"
  /\ fi < Len(safetensor_files)
  /\ ki < Len(CurFile.entries)
  /\ safetensor_files[fi + 1].entries # <<>>

\* the tensor stored under a key in the shard file of this path
TensorAt(path, key) ==
  LET f == CHOOSE g \in FilesAt(path) : TRUE
      j == CHOOSE n \in 1..Len(f.entries) : f.entries[n].key = key
  IN f.entries[j].tensor

Smaller(a, b) == IF a < b THEN a ELSE b

\* the report names the key and the shard file being loaded and carries a
\* sample of each namespace, as long as the namespace or as the sample size
ReportPrinted ==
  /\ Len(printed) = 1
  /\ printed[1].key = weight_name
  /\ printed[1].file = CurFile.path
  /\ Len(printed[1].weights.first) = Smaller(Len(all_weight_names), SampleSize)
  /\ Len(printed[1].params.first) = Smaller(Cardinality(DOMAIN model), SampleSize)
  /\ Len(printed[1].weights.more) = IF Len(all_weight_names) > SampleSize THEN 1 ELSE 0
  /\ Len(printed[1].params.more) = IF Cardinality(DOMAIN model) > SampleSize THEN 1 ELSE 0

\* C7 as stated, for the errors that load_model and default_weight_loader
\* raise themselves (a custom loader's own errors left aside): whenever such
\* an error of the loading phase has left load_model, the report was printed.
C7_ReportOnEveryFailure ==
  (pc = "failed" /\ raised \in {"AttributeError", "RuntimeError"}) => ReportPrinted

\* C7 amended: the report is printed in full before the error leaves
\* load_model exactly when the error is an AttributeError (a name that is no
\* parameter, a missing weight_loader after a rule matched, an AttributeError
\* from inside a custom loader); a RuntimeError of the default loader's copy
\* and any other error of a custom loader leave with nothing printed.
C7_ReportOnAttributeError ==
  /\ pc = "reraise" => ReportPrinted
  /\ (pc = "failed" /\ raised = "AttributeError") => ReportPrinted
  /\ (pc = "failed" /\ raised # "AttributeError") => printed = <<>>
  /\ pc \notin {"reraise", "failed"} => printed = <<>>

C7_Witness ==
  /\ pc = "failed"
  /\ raised = "AttributeError"
  /\ ReportPrinted
  /\ log[Len(log)].op = "get_parameter"
  /\ log[Len(log)].name \in DOMAIN model

\* C8 as stated: a default_weight_loader call with a tensor whose shape or
\* dtype is not the parameter's is the last thing done, the load has failed
\* and the parameter holds what it held.
C8_NoCopyOnMismatch ==
  \A i \in 1..Len(log) :
    LET e == log[i] IN
    e.op = "default_weight_loader" =>
      LET w == TensorAt(e.file, e.key)
          p == model[e.name]
      IN (w.shape # p.shape \/ w.dtype # p.dtype) =>
           /\ i = Len(log)
           /\ pc = "failed"
           /\ p.data = model_before[e.name].data

\* C8 amended: a default_weight_loader call with a tensor whose shape cannot
\* be broadcast to the parameter's is the last thing done, the load has
\* failed with RuntimeError and no report, and the parameter holds what it
\* held; with any other tensor the write follows, and right after it the
\* parameter holds the tensor broadcast to its shape and converted to its
\* dtype.
C8_CopyUnlessNotBroadcastable ==
  \A i \in 1..Len(log) :
    LET e == log[i] IN
    e.op = "default_weight_loader" =>
      LET w == TensorAt(e.file, e.key)
          p == model[e.name]
      IN IF Broadcastable(w.shape, p.shape)
         THEN /\ i < Len(log)
              /\ log[i + 1].op = "write"
              /\ (i + 1 = Len(log)) =>
                   \A q \in 1..Numel(p.shape) :
                     p.data[q] = Cast(BroadcastAt(w, p.shape, q), w.dtype, p.dtype)
         ELSE /\ i = Len(log)
              /\ pc = "failed"
              /\ raised = "RuntimeError"
              /\ printed = <<>>
              /\ (\A j \in 1..i : log[j].op # "write")
                   => p.data = model_before[e.name].data

C8_Witness ==
  /\ Len(log) >= 2
  /\ log[Len(log)].op = "write"
  /\ log[Len(log) - 1].op = "default_weight_loader"
  /\ LET e == log[Len(log)]
         w == TensorAt(e.file, e.key)
         p == model[e.name]
     IN /\ w.shape # p.shape
        /\ w.dtype # p.dtype
        /\ p.data # model_before[e.name].data
        /\ \E q \in 1..Numel(p.shape) : p.data[q] \notin {w.data[n] : n \in 1..Len(w.data)}

\* C9: a key that matches a rule and whose renamed target is a parameter with
\* no weight_loader attribute: the lookup is the last thing done (no tensor
\* read, no default_weight_loader call, no write), the parameter holds what it
\* held, and the load is failing, with AttributeError once it has failed and
\* never complete.
C9_RuleNeedsCustomLoader ==
  \A i \in 1..Len(log) :
    LET e == log[i] IN
    (e.op = "get_parameter" /\ Matching(e.key) # {}
       /\ Renamed(e.key) \in DOMAIN model
       /\ model[Renamed(e.key)].weight_loader = "absent") =>
      /\ i = Len(log)
      /\ pc \in Failing
      /\ (pc = "failed" => raised = "AttributeError")
      /\ (\A j \in 1..i : log[j].op # "write")
           => model[Renamed(e.key)].data = model_before[Renamed(e.key)].data

C9_Witness ==
  /\ pc = "failed"
  /\ log # <<>>
  /\ LET e == log[Len(log)] IN
     /\ e.op = "get_parameter"
     /\ Matching(e.key) # {}
     /\ Renamed(e.key) \in DOMAIN model
     /\ model[Renamed(e.key)].weight_loader = "absent"
     /\ TensorAt(e.file, e.key).shape = model[Renamed(e.key)].shape

\* C10 as stated: every loader call made without a shard identifier is a
\* default_weight_loader call, and right after its write the parameter holds
\* the tensor.
C10_IdentityAlwaysDefault ==
  \A i \in 1..Len(log) :
    LET e == log[i] IN
    (e.op \in LoaderOps /\ e.shard = NoShard) =>
      /\ e.op = "default_weight_loader"
      /\ (i + 1 = Len(log) /\ log[i + 1].op = "write") =>
           model[e.name].data = TensorAt(e.file, e.key).data

\* C10 amended: a loader call made without a shard identifier is a
\* default_weight_loader call exactly when the parameter has no weight_loader
\* attribute, and the parameter's own weight_loader otherwise; right after the
\* write of a default_weight_loader call whose tensor has the parameter's
\* shape and dtype the parameter holds the tensor.
C10_IdentityDefaultUnlessCustom ==
  \A i \in 1..Len(log) :
    LET e == log[i] IN
    (e.op \in LoaderOps /\ e.shard = NoShard) =>
      LET w == TensorAt(e.file, e.key)
          p == model[e.name]
      IN /\ Matching(e.key) = {}
         /\ e.name = e.key
         /\ e.op = "default_weight_loader" <=> p.weight_loader = "absent"
         /\ e.op = "weight_loader" <=> p.weight_loader = "custom"
         /\ (e.op = "default_weight_loader" /\ i + 1 = Len(log)
               /\ log[i + 1].op = "write"
               /\ w.shape = p.shape /\ w.dtype = p.dtype) =>
              p.data = w.data

C10_Witness ==
  /\ Len(log) >= 2
  /\ log[Len(log)].op = "write"
  /\ log[Len(log) - 1].op = "weight_loader"
  /\ log[Len(log)].shard = NoShard
  /\ model[log[Len(log)].name].weight_loader = "custom"
  /\ model[log[Len(log)].name].data # model_before[log[Len(log)].name].data

\* every key of every shard file, as <<index of the file, index of the key>>
Visits ==
  UNION {{<<f, j>> : j \in 1..Len(safetensor_files[f].entries)} :
           f \in 1..Len(safetensor_files)}
KeyAt(v) == safetensor_files[v[1]].entries[v[2]].key
PathAt(v) == safetensor_files[v[1]].path
Done(ops, path, key) ==
  {i \in 1..Len(log) : log[i].op \in ops /\ log[i].file = path /\ log[i].key = key}

\* C11: for every key of every shard file there is at most one parameter
\* lookup and at most one loader call, and once the load is complete there is
\* exactly one lookup, one tensor read, one loader call and one write.
C11_EachKeyOnce ==
  \A v \in Visits :
    /\ Cardinality(Done({"get_parameter"}, PathAt(v), KeyAt(v))) <= 1
    /\ Cardinality(Done(LoaderOps, PathAt(v), KeyAt(v))) <= 1
    /\ pc = "complete" =>
         /\ Cardinality(Done({"get_parameter"}, PathAt(v), KeyAt(v))) = 1
         /\ Cardinality(Done({"get_tensor"}, PathAt(v), KeyAt(v))) = 1
         /\ Cardinality(Done(LoaderOps, PathAt(v), KeyAt(v))) = 1
         /\ Cardinality(Done({"write"}, PathAt(v), KeyAt(v))) = 1

C11_Witness ==
  /\ pc = "complete"
  /\ Len(safetensor_files) >= 2
  /\ Cardinality(Visits) >= 4
  /\ \E v, w \in Visits : v[1] # w[1] /\ KeyAt(v) = KeyAt(w)

\* the parameter name and shard identifier lines 33-37 and 42 give a key
Target(key) ==
  IF Matching(key) = {}
  THEN <<key, NoShard>>
  ELSE <<Renamed(key), packed_modules_mapping[Earliest(key)].shard_id>>
KeysFor(name, shard) == {v \in Visits : Target(KeyAt(v)) = <<name, shard>>}
Writes(name, shard) ==
  {i \in 1..Len(log) :
     log[i].op = "write" /\ log[i].name = name /\ log[i].shard = shard}
Shards ==
  {packed_modules_mapping[i].shard_id : i \in DOMAIN packed_modules_mapping}
WritesTo(name) == UNION {Writes(name, s) : s \in Shards \cup {NoShard}}
Unsharded(name) == model[name].weight_loader = "absent"

\* C12 as stated, for the parameters the checkpoint carries: once the load is
\* complete, a parameter without a custom loader has been written exactly
\* once and no parameter has been written twice under one shard identifier,
\* whatever the checkpoint.
C12_OneWritePerTarget ==
  pc = "complete" =>
    \A name \in DOMAIN model :
      /\ Unsharded(name) /\ KeysFor(name, NoShard) # {} =>
           Cardinality(WritesTo(name)) = 1
      /\ \A s \in Shards : Cardinality(Writes(name, s)) <= 1

\* C12: once the load is complete, the writes a parameter has received under
\* a shard identifier are as many as the keys of the shard files that resolve
\* to that parameter and shard identifier: none for a parameter the
\* checkpoint omits, one for a key carried once, one per carrier otherwise.
C12_OneWritePerKey ==
  pc = "complete" =>
    \A name \in DOMAIN model : \A s \in Shards \cup {NoShard} :
      Cardinality(Writes(name, s)) = Cardinality(KeysFor(name, s))

C12_Witness ==
  /\ pc = "complete"
  /\ \E name \in DOMAIN model :
       /\ Unsharded(name)
       /\ Cardinality(Writes(name, NoShard)) = 2
       /\ \E v, w \in KeysFor(name, NoShard) : v[1] # w[1]

Times(x, l) == Cardinality({i \in DOMAIN l : l[i] = x})
Carried(key) == Cardinality({v \in Visits : KeyAt(v) = key})
Registered(name) == IF name \in DOMAIN model THEN 1 ELSE 0
\* sample lists the first names of a namespace in which name x is present
\* count(x) times, size names in all
FirstSorted(sample, count(_), size) ==
  /\ Len(sample.first) = IF size < SampleSize THEN size ELSE SampleSize
  /\ \A i \in 1..Len(sample.first) - 1 :
       ~StrLess(sample.first[i + 1], sample.first[i])
  /\ \A i \in DOMAIN sample.first :
       Times(sample.first[i], sample.first) <= count(sample.first[i])
  /\ \A x \in {KeyAt(v) : v \in Visits} \cup DOMAIN model :
       Times(x, sample.first) < count(x) =>
         \A i \in DOMAIN sample.first : ~StrLess(x, sample.first[i])
  /\ sample.more = IF size > SampleSize THEN <<size - SampleSize>> ELSE <<>>

\* C13: a printed report lists at most SampleSize keys and at most SampleSize
\* parameter names, each list the first names in sorted order of its
\* namespace, and gives a remainder count of the size minus SampleSize only
\* when the size exceeds SampleSize; the key namespace is the inventory of
\* the keys of all shard files, a key counted once per file that carries it.
C13_SortedSamples ==
  printed # <<>> =>
    /\ FirstSorted(printed[1].weights, Carried, Cardinality(Visits))
    /\ FirstSorted(printed[1].params, Registered, Cardinality(DOMAIN model))

C13_Witness ==
  /\ printed # <<>>
  /\ Len(safetensor_files) = 2
  /\ printed[1].weights.more = <<3>>
  /\ printed[1].params.more = <<1>>
  /\ \E i \in 1..Len(all_weight_names) - 1 :
       StrLess(all_weight_names[i + 1], all_weight_names[i])

Terminal == Phase \in {"Complete", "Failed"}
\* where the call is: the statement, the shard and the key it is at
Stage ==
  CASE pc = "glob" -> 0
    [] pc \in {"scan_open", "scan_keys"} -> 1
    [] pc = "named_parameters" -> 2
    [] pc \in {"load_open", "load_key"} -> 3
    [] pc = "report" -> 4
    [] pc = "reraise" -> 5
    [] pc \in {"complete", "failed"} -> 6
Position ==
  <<Stage, IF Stage \in {1, 3} THEN fi ELSE 0,
    CASE pc = "scan_keys" -> 1
      [] pc = "load_key" -> ki
      [] OTHER -> 0>>
Before(p, q) ==
  \/ p[1] < q[1]
  \/ p[1] = q[1] /\ p[2] < q[2]
  \/ p[1] = q[1] /\ p[2] = q[2] /\ p[3] < q[3]
Dispatched == \A v \in Visits : Done({"write"}, PathAt(v), KeyAt(v)) # {}
PhaseStep ==
  /\ Phase = "Scanning" =>
       \/ Phase' \in {"Scanning", "Loading"}
       \/ /\ Phase' = "Failed"
          /\ safetensor_files = <<>>
          /\ raised' = "FileNotFoundError"
  /\ Phase = "Loading" => Phase' \in {"Loading", "Complete", "Failed"}
  /\ Phase' = "Complete" =>
       /\ Phase = "Loading"
       /\ Dispatched
       /\ raised = "none" /\ caught = "none" /\ printed = <<>>
  /\ Terminal => UNCHANGED vars
  /\ Before(Position, Position')

\* C14: a load goes from Scanning to Loading and from there to Complete or to
\* Failed; from Scanning it fails only for want of shard files; it is
\* Complete only from Loading, with every key of every shard file dispatched
\* and nothing raised; nothing changes once it is Complete or Failed; and
\* every load ends in Complete or in Failed, as a load that is in neither has
\* a next statement to run and every statement moves it to a later position
\* among finitely many.
C14_Lifecycle == [](Terminal \/ ENABLED Next) /\ [][PhaseStep]_vars

C14_Witness ==
  /\ Phase = "Failed"
  /\ raised # "FileNotFoundError"
  /\ \E v \in Visits : Done({"write"}, PathAt(v), KeyAt(v)) # {}

TensorOfVisit(v) == safetensor_files[v[1]].entries[v[2]].tensor
\* the checkpoint is what serializing the parameters gives: no rule, and for
\* every parameter one tensor, under its name, of its shape and dtype
RoundTrip ==
  /\ packed_modules_mapping = <<>>
  /\ DOMAIN model # {}
  /\ \A v \in Visits : KeyAt(v) \in DOMAIN model
  /\ \A name \in DOMAIN model :
       /\ Carried(name) = 1
       /\ \A v \in Visits :
            KeyAt(v) = name =>
              /\ TensorOfVisit(v).shape = model_before[name].shape
              /\ TensorOfVisit(v).dtype = model_before[name].dtype
Restored(name) ==
  \A v \in Visits : KeyAt(v) = name => model[name].data = TensorOfVisit(v).data

\* C15 as stated: a round trip ends in Complete, never in Failed, and leaves
\* every parameter equal to the tensor of its name.
C15_RoundTripAlways ==
  RoundTrip /\ Terminal =>
    /\ pc = "complete"
    /\ \A name \in DOMAIN model : Restored(name)

\* C15: a round trip fails only in the custom loader of a parameter that has
\* one, so it ends in Complete when every parameter is loaded by the default
\* loader; and when it ends in Complete, every parameter loaded by the
\* default loader equals the tensor of its name.
C15_RoundTripByDefaultLoader ==
  RoundTrip /\ Terminal =>
    /\ pc = "failed" =>
         /\ log[Len(log)].op = "weight_loader"
         /\ raised \in LoaderErrors
         /\ ~Unsharded(log[Len(log)].name)
    /\ pc = "complete" =>
         \A name \in DOMAIN model : Unsharded(name) => Restored(name)

C15_Witness ==
  /\ RoundTrip
  /\ pc = "complete"
  /\ Len(safetensor_files) = 2
  /\ Cardinality(DOMAIN model) = 2
  /\ \A name \in DOMAIN model :
       Unsharded(name) /\ Restored(name) /\ model[name] # model_before[name]

ThreeShards ==
  /\ Len(packed_modules_mapping) = 3
  /\ {packed_modules_mapping[i].shard_id : i \in 1..3} = {0, 1, 2}
\* one key that all three rules match and rename to three parameters, each a
\* third of the key's tensor
SplitCase ==
  /\ ThreeShards
  /\ Cardinality(Visits) = 1
  /\ \A v \in Visits :
       /\ Matching(KeyAt(v)) = 1..3
       /\ DOMAIN model = {RenamedBy(KeyAt(v), i) : i \in 1..3}
       /\ Cardinality(DOMAIN model) = 3
       /\ \A name \in DOMAIN model :
            3 * Len(model[name].data) = Len(TensorOfVisit(v).data)
\* three keys, each matched by its own rule, renamed to one parameter three
\* times as long as each tensor
ComposedCase ==
  /\ ThreeShards
  /\ Cardinality(Visits) = 3
  /\ Cardinality(DOMAIN model) = 1
  /\ \A i \in 1..3 : \E v \in Visits : Matching(KeyAt(v)) = {i}
  /\ \A v \in Visits :
       /\ Renamed(KeyAt(v)) \in DOMAIN model
       /\ Len(model[Renamed(KeyAt(v))].data) = 3 * Len(TensorOfVisit(v).data)
\* the part of a list of values that shard s of n values takes
Slice(data, s, n) == [p \in 1..n |-> data[s * n + p]]

\* C16 as stated: a fused tensor that three rules split onto three parameters
\* loads to Complete and leaves each parameter holding the part of the tensor
\* its shard identifier names, as loading the three parts by identity would.
C16_FusedTensorSplit ==
  SplitCase /\ Terminal =>
    /\ pc = "complete"
    /\ \A v \in Visits : \A i \in 1..3 :
         model[RenamedBy(KeyAt(v), i)].data =
           Slice(TensorOfVisit(v).data, packed_modules_mapping[i].shard_id,
                 Len(model[RenamedBy(KeyAt(v), i)].data))

\* C16: a key is never split: of three rules that match it the first alone is
\* applied, and the parameters of the other two are left as they were.
\* Fusion composes instead: three tensors that three rules rename onto one
\* parameter with shard identifiers 0, 1 and 2 leave, once the load is
\* complete, part s of that parameter equal to the tensor of shard s, which
\* is what loading a tensor by identity leaves in a parameter of its own.
C16_FusionComposes ==
  /\ SplitCase =>
       \A v \in Visits : \A i \in 1..3 :
         i # Earliest(KeyAt(v)) =>
           /\ model[RenamedBy(KeyAt(v), i)] = model_before[RenamedBy(KeyAt(v), i)]
           /\ \A e \in 1..Len(log) : log[e].name # RenamedBy(KeyAt(v), i)
  /\ ComposedCase /\ pc = "complete" =>
       \A v \in Visits :
         Slice(model[Renamed(KeyAt(v))].data,
               packed_modules_mapping[Earliest(KeyAt(v))].shard_id,
               Len(TensorOfVisit(v).data)) = TensorOfVisit(v).data
  /\ RoundTrip /\ pc = "complete" =>
       \A name \in DOMAIN model : Unsharded(name) => Restored(name)

C16_Witness ==
  /\ ComposedCase
  /\ pc = "complete"
  /\ Len(safetensor_files) = 3
  /\ \A name \in DOMAIN model : model[name].data = <<3, 5, 7, 9, 11, 13>>

KeysEventsBefore(i) ==
  {log[j].file : j \in {n \in 1..i - 1 : log[n].op = "keys"}}
AllPaths == {safetensor_files[f].path : f \in 1..Len(safetensor_files)}

\* C17: before the first parameter lookup, tensor read, loader call or write
\* the keys of every shard file have been listed and are all in the
\* inventory; while the load is Scanning no tensor has been read and no
\* parameter has changed.
C17_InventoryBeforeLoading ==
  /\ \A i \in 1..Len(log) :
       log[i].op # "keys" =>
         /\ KeysEventsBefore(i) = AllPaths
         /\ \A v \in Visits : Times(KeyAt(v), all_weight_names) = Carried(KeyAt(v))
         /\ Len(all_weight_names) = Cardinality(Visits)
  /\ Phase = "Scanning" =>
       /\ model = model_before
       /\ \A i \in 1..Len(log) : log[i].op = "keys"

C17_Witness ==
  /\ Len(safetensor_files) >= 2
  /\ Len(all_weight_names) >= 3
  /\ \E i \in 1..Len(log) : log[i].op = "write"
  /\ pc = "load_key"

\* C18: at most one shard file is open at any time, and it is the one the
\* loop is at; none is open when a shard is about to be opened, between the
\* two loops, or once the load is Complete or Failed, a failure in the
\* middle of a shard included.
C18_OneShardOpen ==
  /\ Cardinality(opened) <= 1
  /\ pc \in {"scan_keys", "load_key", "report", "reraise"} => opened = {CurFile.path}
  /\ pc \in {"glob", "scan_open", "named_parameters", "load_open"} => opened = {}
  /\ Terminal => opened = {}

C18_Witness ==
  /\ pc = "failed"
  /\ raised \in {"RuntimeError", "AssertionError"}
  /\ opened = {}
  /\ fi = 1 /\ Len(safetensor_files) = 2
  /\ ki = 2 /\ ki <= Len(CurFile.entries)
  /\ \E i \in 1..Len(log) : log[i].op = "write"

Omitted(name) == \A v \in Visits : Target(KeyAt(v))[1] # name

\* C19: a load of at least one shard file whose every key has been dispatched
\* with a write ends in Complete whether or not every parameter was written,
\* and a parameter that no key of the checkpoint resolves to is then as it
\* was before the load.
C19_NoCompletenessCheck ==
  /\ Terminal /\ Dispatched /\ safetensor_files # <<>> => pc = "complete"
  /\ pc = "complete" =>
       \A name \in DOMAIN model :
         Omitted(name) =>
           /\ model[name] = model_before[name]
           /\ \A i \in 1..Len(log) : log[i].name # name

C19_Witness ==
  /\ pc = "complete"
  /\ \E name \in DOMAIN model : Omitted(name)
  /\ \E name \in DOMAIN model : model[name] # model_before[name]

ReportFrame ==
  pc \in {"report", "reraise"} =>
    /\ model' = model
    /\ all_weight_names' = all_weight_names
    /\ model_params' = model_params
    /\ UNCHANGED inputs

\* C20: from the failure that is reported to its propagation, the report
\* printed in between, the parameters, the key inventory, the parameter
\* namespace and the inputs of the load stay as they are.
C20_ReportReadsOnly == [][ReportFrame]_vars

C20_Witness ==
  /\ pc = "failed"
  /\ printed # <<>>
  /\ model # model_before
  /\ \E i \in 1..Len(all_weight_names) - 1 :
       StrLess(all_weight_names[i + 1], all_weight_names[i])

\* the parameters m after the loader of lines 38-39 or 43-44 has taken entry e
Stored(m, e) ==
  LET plan == Plan(packed_modules_mapping, DOMAIN m, e.key)
      param == m[plan.param_name]
  IN [m EXCEPT ![plan.param_name].data =
        IF getattr(param, plan.rule) = "default_weight_loader"
        THEN default_weight_loader(param, e.tensor).data
        ELSE Region(param, e.tensor, plan.shard_id)]
\* the parameters m after the first n of these entries
RECURSIVE StoredAll(_, _, _)
StoredAll(m, entries, n) ==
  IF n = 0 THEN m ELSE Stored(StoredAll(m, entries, n - 1), entries[n])
\* the parameters m after the first n shard files in the order o
RECURSIVE Hydrated(_, _, _)
Hydrated(m, o, n) ==
  IF n = 0 THEN m
  ELSE StoredAll(Hydrated(m, o, n - 1), safetensor_files[o[n]].entries,
                 Len(safetensor_files[o[n]].entries))
FileOrders ==
  {o \in [1..Len(safetensor_files) -> 1..Len(safetensor_files)] :
     \A i, j \in 1..Len(safetensor_files) : i # j => o[i] # o[j]}
DisjointKeys ==
  \A v, w \in Visits : v[1] # w[1] => KeyAt(v) # KeyAt(w)
\* keys of different shard files write different parameters, or different
\* shard identifiers of one parameter
SeparateTargets ==
  \A v, w \in Visits :
    v[1] # w[1] /\ Target(KeyAt(v))[1] = Target(KeyAt(w))[1] =>
      /\ Target(KeyAt(v))[2] # NoShard
      /\ Target(KeyAt(w))[2] # NoShard
      /\ Target(KeyAt(v))[2] # Target(KeyAt(w))[2]

\* C21 as stated: once a load of shard files with pairwise disjoint keys is
\* complete, the parameters are what loading the shard files in any other
\* order leaves.
C21_AnyOrderOfShards ==
  pc = "complete" /\ DisjointKeys =>
    \A o \in FileOrders : Hydrated(model_before, o, Len(safetensor_files)) = model

\* C21: once a load of shard files with pairwise disjoint keys is complete,
\* the parameters are what loading the shard files in any other order
\* leaves, provided no two keys of different shard files write the same
\* parameter under the same shard identifier or as a whole.
C21_AnyOrderOfSeparateTargets ==
  pc = "complete" /\ DisjointKeys /\ SeparateTargets =>
    \A o \in FileOrders : Hydrated(model_before, o, Len(safetensor_files)) = model

C21_Witness ==
  /\ pc = "complete"
  /\ DisjointKeys /\ SeparateTargets
  /\ Len(safetensor_files) >= 2
  /\ \A f \in 1..Len(safetensor_files) : safetensor_files[f].entries # <<>>
  /\ \E v, w \in Visits :
       v[1] # w[1] /\ Target(KeyAt(v))[1] = Target(KeyAt(w))[1]
  /\ \A name \in DOMAIN model : model[name] # model_before[name]

\* the parameters after the keys dispatched before the one the loop is at
Partial ==
  StoredAll(Hydrated(model_before, [i \in 1..Len(safetensor_files) |-> i], fi - 1),
            CurFile.entries, ki - 1)
Written(name) == \E i \in 1..Len(log) : log[i].op = "write" /\ log[i].name = name

\* C22: when a load fails in the loading loop, the parameters are what the
\* keys dispatched before the failing key have left: a parameter one of them
\* wrote holds what was loaded into it, and a parameter none of them wrote is
\* as it was before the load.
C22_NoRollback ==
  pc = "failed" /\ raised # "FileNotFoundError" =>
    /\ model = Partial
    /\ \A name \in DOMAIN model : ~Written(name) => model[name] = model_before[name]

C22_Witness ==
  /\ pc = "failed"
  /\ printed # <<>>
  /\ \E name \in DOMAIN model : Written(name) /\ model[name] # model_before[name]
  /\ \E name \in DOMAIN model : ~Written(name)
  /\ fi = 2

Capitals ==
  {<<"t", "T">>, <<"r", "R">>, <<"u", "U">>, <<"e", "E">>, <<"y", "Y">>,
   <<"s", "S">>}
\* value is word, in small or capital letters
Spelt(word, value) ==
  /\ Len(value) = Len(word)
  /\ \A i \in 1..Len(word) : value[i] = word[i] \/ <<word[i], value[i]>> \in Capitals
DebugWanted ==
  /\ environ.DEBUG_UI # <<>>
  /\ \E word \in {<<"1">>, <<"t", "r", "u", "e">>, <<"y", "e", "s">>} :
       Spelt(word, environ.DEBUG_UI[1])
Initializations(handler) ==
  {i \in 1..Len(calls) :
     calls[i].op \in {"initialize_service", "initialize"} /\ calls[i].handler = handler}
Bound == main_pc \notin {"debug_ui", "handlers", "configure"}
\* no second DiT model is configured: the variable is set to blanks or nothing
SecondBlank ==
  /\ environ.SERVICE_MODE_DIT_MODEL_2 # <<>>
  /\ \A i \in DOMAIN environ.SERVICE_MODE_DIT_MODEL_2[1] :
       environ.SERVICE_MODE_DIT_MODEL_2[1][i] = " "
FirstModel ==
  IF environ.SERVICE_MODE_DIT_MODEL = <<>> THEN <<"t">>
  ELSE environ.SERVICE_MODE_DIT_MODEL[1]

\* C23: with DEBUG_UI set to 1, true or yes in any mix of small and capital
\* letters, main initializes no model, creates no second DiT handler, and
\* hands the interface generation disabled and a list of models holding the
\* first model only.  Otherwise the first DiT model is initialized before the
\* second and both before the LM, and the interface is created only after the
\* first DiT model, the second if one is configured, and the LM.
C23_DebugUiSkipsModels ==
  /\ main_pc # "debug_ui" => (debug_ui <=> DebugWanted)
  /\ DebugWanted =>
       /\ \A i \in 1..Len(calls) :
            calls[i].op \notin {"initialize_service", "initialize"}
       /\ \A i \in 1..Len(calls) : calls[i].handler # "dit_handler_2"
       /\ Bound => dit_handler_2 = "None" /\ enable_generate = FALSE
       /\ main_pc = "serving" =>
            /\ init_params.enable_generate = FALSE
            /\ init_params.dit_handler_2 = "None"
            /\ init_params.available_dit_models = <<FirstModel>>
            /\ init_params.debug_ui
  /\ ~DebugWanted =>
       /\ \A i \in Initializations("dit_handler_2") :
            \E j \in Initializations("dit_handler") : j < i
       /\ \A i \in Initializations("llm_handler") :
            /\ \E j \in Initializations("dit_handler") : j < i
            /\ ~SecondBlank =>
                 \E j \in Initializations("dit_handler_2") : j < i
       /\ SecondBlank => Initializations("dit_handler_2") = {}
       /\ main_pc = "serving" => Initializations("llm_handler") # {}

C23_Witness ==
  /\ main_pc = "serving"
  /\ environ.DEBUG_UI = <<(<<"Y", "e", "s">>)>>
  /\ environ.SERVICE_MODE_DIT_MODEL_2 = <<>>
  /\ init_params.available_dit_models = <<(<<"t">>)>>
  /\ gpu_memory_gb = 8

====
